---- MODULE Spec2Model ----
(***************************************************************************)
(* duration-fns: the normalisation of a duration into components           *)
(* (normalizeTime, Time.toComponents), the rounding primitive              *)
(* floorTowardsZero, sum, the coercion toTimeObject and the immutable Time *)
(* class.                                                                  *)
(*                                                                         *)
(* Numbers.  The library computes on JavaScript numbers.  The model keeps  *)
(* them exact, in fixed point:                                             *)
(*   - a duration in milliseconds (a millisecond scalar, a running tally,  *)
(*     Time.milliseconds) is a pair [s, t] of whole seconds s and          *)
(*     0 <= t < K sub-second ticks, a tick being 1/Den of a millisecond;   *)
(*     its value is s * K + t ticks.  Two limbs are needed because a year  *)
(*     is 31 557 600 000 ms, more than a 32-bit integer holds;             *)
(*   - a field of a components object holds a whole count for years ..    *)
(*     seconds, and such a duration [s, t] for milliseconds (so that       *)
(*     milliseconds: 1.5 is 3 ticks when Den = 2);                         *)
(*   - the quotient handed to floorTowardsZero is the pair of its          *)
(*     numerator and denominator, both durations, with the sign of a       *)
(*     zero kept apart (negZero).                                          *)
(* Within the magnitudes of the model (below 2^31 seconds, about 68 years) *)
(* every one of these values is an exact double when Den is a power of 2.  *)
(* NaN and the infinities are outside the model.                           *)
(***************************************************************************)
EXTENDS Integers, Sequences, FiniteSets, TLC

\* Sub-millisecond resolution of the model: ticks per millisecond.
Den == 2

\* Ticks per second.
K == 1000 * Den

---------------------------------------------------------------------------
(* Exact arithmetic on durations [s, t].                                   *)

DNorm(s, t) == [s |-> s + (t \div K), t |-> t % K]

\* n whole milliseconds, n ticks
Ms(n) == DNorm(0, n * Den)
Ticks(n) == DNorm(0, n)

DZero == [s |-> 0, t |-> 0]
DAdd(a, b) == DNorm(a.s + b.s, a.t + b.t)
DNeg(a) == DNorm(-a.s, -a.t)
DSub(a, b) == DNorm(a.s - b.s, a.t - b.t)
DTimes(a, c) == DNorm(a.s * c, a.t * c)
DIsNeg(a) == a.s < 0
DIsZero(a) == a.s = 0 /\ a.t = 0
DLess(a, b) == a.s < b.s \/ (a.s = b.s /\ a.t < b.t)
DLeq(a, b) == a = b \/ DLess(a, b)
DAbs(a) == IF DIsNeg(a) THEN DNeg(a) ELSE a
DIsWholeMs(a) == a.t % Den = 0
\* the ticks of a duration of less than 2^31 ticks
DToTicks(a) == a.s * K + a.t
\* a / n for an integer n > 0 that divides a exactly
DDivides(n, a) == ((a.s % n) * K + a.t) % n = 0
DOver(a, n) == [s |-> a.s \div n, t |-> ((a.s % n) * K + a.t) \div n]

---------------------------------------------------------------------------
(* Time.ts: unit constants.                                                *)

MILLISECONDS_IN_A_SECOND == Ms(1000)
MILLISECONDS_IN_A_MINUTE == DTimes(MILLISECONDS_IN_A_SECOND, 60)
MILLISECONDS_IN_AN_HOUR == DTimes(MILLISECONDS_IN_A_MINUTE, 60)
MILLISECONDS_IN_A_DAY == DTimes(MILLISECONDS_IN_AN_HOUR, 24)

(* lib/constants: the units Time.ts does not have.  1 year = 365.25 days,  *)
(* 1 month = year / 12.                                                    *)
MILLISECONDS_IN_A_WEEK == DTimes(MILLISECONDS_IN_A_DAY, 7)
MILLISECONDS_IN_A_YEAR ==
    DAdd(DTimes(MILLISECONDS_IN_A_DAY, 365), DOver(MILLISECONDS_IN_A_DAY, 4))
MILLISECONDS_IN_A_MONTH == DOver(MILLISECONDS_IN_A_YEAR, 12)
ONE_MILLISECOND == Ms(1)

---------------------------------------------------------------------------
(* JavaScript numbers as floorTowardsZero sees them.                       *)

\* num / den, den a unit factor.  A quotient of the library is never -0:
\* its numerator is a sum that starts from +0.
Div(num, den) == [num |-> num, den |-> den, negZero |-> FALSE]
\* the literal -0
NegativeZero == [num |-> DZero, den |-> ONE_MILLISECOND, negZero |-> TRUE]

\* value < 0 (false of -0)
LessThanZero(value) == DIsNeg(value.num)

\* floor(num / den) for den a whole number of seconds, or a number of ticks
\* that divides K
FloorQ(num, den) ==
    IF den.t = 0
    THEN num.s \div den.s
    ELSE num.s * (K \div den.t) + (num.t \div den.t)

\* Math.floor, Math.ceil: an integer, and whether it is -0
MathFloor(value) ==
    IF value.negZero
    THEN [n |-> 0, negZero |-> TRUE]
    ELSE [n |-> FloorQ(value.num, value.den), negZero |-> FALSE]

MathCeil(value) ==
    LET c == -FloorQ(DNeg(value.num), value.den)
    IN  [n |-> c, negZero |-> c = 0 /\ (LessThanZero(value) \/ value.negZero)]

\* x || 0 for a number x that is not NaN: x is falsy iff it is +0 or -0
OrZero(x) == IF x.n = 0 THEN [n |-> 0, negZero |-> FALSE] ELSE x

\* floorTowardsZero as Math.floor alone
floorTowardsZeroFloors(value) == MathFloor(value)

\* floorTowardsZero without "|| 0"
floorTowardsZeroKeepsNegativeZero(value) ==
    IF LessThanZero(value)
    THEN MathCeil(value)
    ELSE MathFloor(value)

\* Time.ts, floorTowardsZero
floorTowardsZero(value) ==
    IF LessThanZero(value)
    THEN OrZero(MathCeil(value))
    ELSE MathFloor(value)

---------------------------------------------------------------------------
(* Values and results.                                                     *)

VARIABLES
    input,          \* what the client calls the library with
    ZERO,           \* lib/units: the shared all-zero Duration object
    DEFAULT_TIME,   \* lib/constants: the shared all-zero Time object
    heap,           \* the Time instances constructed so far: their milliseconds
    last            \* the latest call: its name, arguments and outcome

vars == <<input, ZERO, DEFAULT_TIME, heap, last>>

\* what a call does: returns a value, or throws
(* A returned object has an identity: "new" for an object the call created, *)
(* or the name of the shared module-level object it is.                    *)
Return(ref, v) == [ok |-> TRUE, value |-> v, ref |-> ref]
Ok(v) == Return("new", v)
Throw(e) == [ok |-> FALSE, error |-> e]
\* { ...shared }: a new object with the fields of a shared one
Copy(shared) == [ref |-> "new", fields |-> shared]

\* the shapes of a runtime value handed to the coercion layer
Number(d) == [kind |-> "number", num |-> d]
Object(o) == [kind |-> "object", obj |-> o]
String(chars) == [kind |-> "string", str |-> chars]
Null == [kind |-> "null"]
Undefined == [kind |-> "undefined"]
Boolean(b) == [kind |-> "boolean", bool |-> b]

(* typeof: null is an "object" *)
typeof(v) == IF v.kind = "null" THEN "object" ELSE v.kind

(* The own enumerable properties an object spread copies from a value:     *)
(* those of an object; none from null, undefined or a boolean.             *)
OwnProperties(v) == IF v.kind = "object" THEN v.obj ELSE << >>

\* const x = v; F(x)
With(v, F(_)) == F(v)

\* { ...a, ...b }
Spread(a, b) ==
    [k \in (DOMAIN a) \cup (DOMAIN b) |-> IF k \in DOMAIN b THEN b[k] ELSE a[k]]

---------------------------------------------------------------------------
(* lib/units, lib/constants: the units, largest first.                     *)

UNIT_KEYS ==
    <<"years", "months", "weeks", "days", "hours", "minutes", "seconds",
      "milliseconds">>

KeySet == {UNIT_KEYS[i] : i \in DOMAIN UNIT_KEYS}

\* the milliseconds in one of a unit
Factor(key) ==
    CASE key = "years" -> MILLISECONDS_IN_A_YEAR
      [] key = "months" -> MILLISECONDS_IN_A_MONTH
      [] key = "weeks" -> MILLISECONDS_IN_A_WEEK
      [] key = "days" -> MILLISECONDS_IN_A_DAY
      [] key = "hours" -> MILLISECONDS_IN_AN_HOUR
      [] key = "minutes" -> MILLISECONDS_IN_A_MINUTE
      [] key = "seconds" -> MILLISECONDS_IN_A_SECOND
      [] key = "milliseconds" -> ONE_MILLISECOND

(* The fixed-point encoding of a field: the milliseconds field holds a     *)
(* duration [s, t], every other field a whole count.                       *)
\* the whole number n as the value of field key
Field(key, n) == IF key = "milliseconds" THEN Ms(n) ELSE n
\* field * MILLISECONDS_IN_A_<unit>
FieldMs(key, x) == IF key = "milliseconds" THEN x ELSE DTimes(Factor(key), x)
\* a + b on two values of field key
FieldAdd(key, a, b) == IF key = "milliseconds" THEN DAdd(a, b) ELSE a + b
FieldIsNeg(key, x) == IF key = "milliseconds" THEN DIsNeg(x) ELSE x < 0
FieldIsPos(key, x) ==
    IF key = "milliseconds" THEN ~DIsNeg(x) /\ ~DIsZero(x) ELSE x > 0
FieldIsWhole(key, x) == IF key = "milliseconds" THEN DIsWholeMs(x) ELSE TRUE

AllZero == [k \in KeySet |-> Field(k, 0)]

---------------------------------------------------------------------------
(* lib/parseISODuration: [-]P[nY][nM][nW][nD][T[nH][nM][nS]].  A string is *)
(* the sequence of its characters; n is a run of decimal digits.           *)

DigitChars == <<"0", "1", "2", "3", "4", "5", "6", "7", "8", "9">>
IsDigit(c) == \E d \in DOMAIN DigitChars : DigitChars[d] = c
DigitValue(c) == (CHOOSE d \in DOMAIN DigitChars : DigitChars[d] = c) - 1

DateDesignators ==
    <<[d |-> "Y", key |-> "years"], [d |-> "M", key |-> "months"],
      [d |-> "W", key |-> "weeks"], [d |-> "D", key |-> "days"]>>
TimeDesignators ==
    <<[d |-> "H", key |-> "hours"], [d |-> "M", key |-> "minutes"],
      [d |-> "S", key |-> "seconds"]>>

RECURSIVE ReadDigits(_, _, _)
ReadDigits(str, i, acc) ==
    IF i <= Len(str) /\ IsDigit(str[i])
    THEN ReadDigits(str, i + 1, acc * 10 + DigitValue(str[i]))
    ELSE [val |-> acc, next |-> i]

\* the run of "n<designator>" items at position i; the designators are those
\* of table from index j on, each at most once and in the table's order
RECURSIVE ParseItems(_, _, _, _, _)
ParseItems(str, i, table, j, fields) ==
    IF i > Len(str) \/ ~IsDigit(str[i])
    THEN [ok |-> TRUE, next |-> i, fields |-> fields]
    ELSE LET num == ReadDigits(str, i, 0)
             at == {m \in j..Len(table) :
                        num.next <= Len(str) /\ table[m].d = str[num.next]}
         IN  IF at = {}
             THEN [ok |-> FALSE, next |-> i, fields |-> fields]
             ELSE LET m == CHOOSE m \in at : TRUE
                  IN  ParseItems(str, num.next + 1, table, m + 1,
                                 Spread(fields, [k \in {table[m].key} |-> num.val]))

parseISODuration(str) ==
    LET negative == Len(str) >= 1 /\ str[1] = "-"
        p == IF negative THEN 2 ELSE 1
        date == ParseItems(str, p + 1, DateDesignators, 1, << >>)
        hasT == date.next <= Len(str) /\ str[date.next] = "T"
        time == IF hasT
                THEN ParseItems(str, date.next + 1, TimeDesignators, 1, << >>)
                ELSE [ok |-> TRUE, next |-> date.next, fields |-> << >>]
        found == Spread(date.fields, time.fields)
    IN  IF \/ ~(p <= Len(str) /\ str[p] = "P")
           \/ ~date.ok
           \/ ~time.ok
           \/ time.next # Len(str) + 1
           \/ (hasT /\ DOMAIN time.fields = {})
           \/ DOMAIN found = {}
        THEN Throw("ParseError")
        ELSE Ok([k \in KeySet |->
                    IF k \in DOMAIN found
                    THEN Field(k, IF negative THEN -found[k] ELSE found[k])
                    ELSE Field(k, 0)])

---------------------------------------------------------------------------
(* toTimeObject: format various time formats to a simple Time object.      *)

toTimeObject(time) ==
    IF typeof(time) = "string"
    THEN parseISODuration(time.str)
    ELSE IF typeof(time) = "number"
    THEN Ok(Spread(DEFAULT_TIME, [k \in {"milliseconds"} |-> time.num]))
    ELSE Ok(Spread(DEFAULT_TIME, OwnProperties(time)))

(* parse: the same coercion over ZERO, in the Duration naming.             *)
parse(duration) ==
    IF typeof(duration) = "string"
    THEN parseISODuration(duration.str)
    ELSE IF typeof(duration) = "number"
    THEN Ok(Spread(ZERO, [k \in {"milliseconds"} |-> duration.num]))
    ELSE Ok(Spread(ZERO, OwnProperties(duration)))

---------------------------------------------------------------------------
(* unitConversion, calculations.                                           *)

RECURSIVE SumOfFields(_, _)
SumOfFields(o, i) ==
    IF i > Len(UNIT_KEYS)
    THEN DZero
    ELSE DAdd(FieldMs(UNIT_KEYS[i], o[UNIT_KEYS[i]]), SumOfFields(o, i + 1))

\* the millisecond value of an input that toTimeObject accepts
toMilliseconds(time) == SumOfFields(toTimeObject(time).value, 1)

\* toYears .. toMilliseconds, by the key of the unit
convertTo(key, time) == Div(toMilliseconds(time), Factor(key))

\* subtractTime(a, b): a number of milliseconds
subtractTime(time, timeToSubtract) ==
    Number(DSub(toMilliseconds(time), toMilliseconds(timeToSubtract)))

---------------------------------------------------------------------------
(* normalizeTime.                                                          *)

\* units without its last entry
unitsWithoutMilliseconds ==
    <<[key |-> "years"], [key |-> "months"], [key |-> "weeks"],
      [key |-> "days"], [key |-> "hours"], [key |-> "minutes"],
      [key |-> "seconds"]>>

\* units without the entry of hours
unitsWithoutHours ==
    <<[key |-> "years"], [key |-> "months"], [key |-> "weeks"],
      [key |-> "days"], [key |-> "minutes"], [key |-> "seconds"],
      [key |-> "milliseconds"]>>

\* units with days before weeks
unitsDaysBeforeWeeks ==
    <<[key |-> "years"], [key |-> "months"], [key |-> "days"],
      [key |-> "weeks"], [key |-> "hours"], [key |-> "minutes"],
      [key |-> "seconds"], [key |-> "milliseconds"]>>

units ==
    <<[key |-> "years"], [key |-> "months"], [key |-> "weeks"],
      [key |-> "days"], [key |-> "hours"], [key |-> "minutes"],
      [key |-> "seconds"], [key |-> "milliseconds"]>>

\* one turn of the loop: [tally, output] after the unit units[i]
normalizeStep(tally, output, i) ==
    With(units[i].key, LAMBDA key :
    With(Field(key, floorTowardsZero(convertTo(key, tally)).n), LAMBDA value :
    [output |-> [output EXCEPT ![key] = value],
     tally |-> subtractTime(tally, Object([k \in {key} |-> value]))]))

RECURSIVE normalizeLoop(_, _, _)
normalizeLoop(tally, output, i) ==
    IF i > Len(units)
    THEN output
    ELSE With(normalizeStep(tally, output, i), LAMBDA next :
         normalizeLoop(next.tally, next.output, i + 1))

\* const output: Time = { ...DEFAULT_TIME }
normalizeOutput == Copy(DEFAULT_TIME)

\* The first conversion of the loop throws what toTimeObject throws.
normalizeTime(time) ==
    IF ~toTimeObject(time).ok
    THEN toTimeObject(time)
    ELSE Return(normalizeOutput.ref,
                normalizeLoop(time, normalizeOutput.fields, 1))

---------------------------------------------------------------------------
(* sum.                                                                    *)

\* output[key] = duration[key]
sumIntoAssigns(output, duration) == [key \in KeySet |-> duration[key]]

\* output[key] += duration[key] for every key
sumInto(output, duration) ==
    [key \in KeySet |-> FieldAdd(key, output[key], duration[key])]

RECURSIVE sumLoop(_, _, _)
sumLoop(output, durations, i) ==
    IF i > Len(durations)
    THEN output
    ELSE sumLoop(sumInto(output, parse(durations[i]).value), durations, i + 1)

\* durations.map(parse) throws before output is touched
\* const output = ZERO
sumOutputShared == [ref |-> "ZERO", fields |-> ZERO]

\* const output = { ...ZERO }
sumOutput == Copy(ZERO)

sum(durations) ==
    IF \E i \in DOMAIN durations : ~parse(durations[i]).ok
    THEN Throw("ParseError")
    ELSE Return(sumOutput.ref, sumLoop(sumOutput.fields, durations, 1))

---------------------------------------------------------------------------
(* Time.ts: the Time class.  An instance is its readonly milliseconds; a   *)
(* method takes the heap of instances and returns the heap and a result.   *)

convertToMilliseconds(time) ==
    LET get(key) == IF key \in DOMAIN time THEN time[key] ELSE Field(key, 0)
    IN  DAdd(DAdd(DAdd(DAdd(DTimes(MILLISECONDS_IN_A_DAY, get("days")),
                            DTimes(MILLISECONDS_IN_AN_HOUR, get("hours"))),
                       DTimes(MILLISECONDS_IN_A_MINUTE, get("minutes"))),
                  DTimes(MILLISECONDS_IN_A_SECOND, get("seconds"))),
             get("milliseconds"))

\* new Time(time)
TimeConstructor(h, time) ==
    [heap |-> Append(h, [milliseconds |-> convertToMilliseconds(time)]),
     ref |-> Len(h) + 1]

\* add that updates this and returns it
addInPlace(h, this, time) ==
    [heap |-> [h EXCEPT ![this] =
                  [milliseconds |->
                      DAdd(h[this].milliseconds, convertToMilliseconds(time))]],
     ref |-> this]

add(h, this, time) ==
    TimeConstructor(h,
        [milliseconds |-> DAdd(h[this].milliseconds, convertToMilliseconds(time))])

subtract(h, this, time) ==
    TimeConstructor(h,
        [milliseconds |-> DSub(h[this].milliseconds, convertToMilliseconds(time))])

\* multiplier: an integer
multiply(h, this, multiplier) ==
    TimeConstructor(h,
        [milliseconds |-> DTimes(h[this].milliseconds, multiplier)])

\* divisor: a non-zero integer that divides the milliseconds to whole ticks
divide(h, this, divisor) ==
    TimeConstructor(h,
        [milliseconds |->
            IF divisor > 0
            THEN DOver(h[this].milliseconds, divisor)
            ELSE DNeg(DOver(h[this].milliseconds, -divisor))])

TimeToMilliseconds(h, this) == h[this].milliseconds
TimeToSeconds(h, this) == Div(h[this].milliseconds, MILLISECONDS_IN_A_SECOND)
TimeToMinutes(h, this) == Div(h[this].milliseconds, MILLISECONDS_IN_A_MINUTE)
TimeToHours(h, this) == Div(h[this].milliseconds, MILLISECONDS_IN_AN_HOUR)
TimeToDays(h, this) == Div(h[this].milliseconds, MILLISECONDS_IN_A_DAY)

(* toComponents.  Each tally is a new instance; they are garbage when the  *)
(* method returns, so the heap it leaves holds the instances it was given. *)
toComponents(h, this) ==
    With(floorTowardsZero(TimeToDays(h, this)).n, LAMBDA days :
    With(subtract(h, this, [days |-> days]), LAMBDA t1 :
    With(floorTowardsZero(TimeToHours(t1.heap, t1.ref)).n, LAMBDA hours :
    With(subtract(t1.heap, t1.ref, [hours |-> hours]), LAMBDA t2 :
    With(floorTowardsZero(TimeToMinutes(t2.heap, t2.ref)).n, LAMBDA minutes :
    With(subtract(t2.heap, t2.ref, [minutes |-> minutes]), LAMBDA t3 :
    With(floorTowardsZero(TimeToSeconds(t3.heap, t3.ref)).n, LAMBDA seconds :
    With(subtract(t3.heap, t3.ref, [seconds |-> seconds]), LAMBDA tally :
    [heap |-> SubSeq(tally.heap, 1, Len(h)),
     value |-> [days |-> days, hours |-> hours, minutes |-> minutes,
                seconds |-> seconds,
                milliseconds |-> tally.heap[tally.ref].milliseconds]]))))))))

toJSON(h, this) == toComponents(h, this)

---------------------------------------------------------------------------
(* The inputs of the model.                                                *)

\* multiples of a unit: -MaxCount .. MaxCount of it
MaxCount == 2
\* distance from a multiple of a unit, in ticks
MaxOff == 3
\* the count in a field of an object input
MaxField == 3
\* the arguments of one call of sum
MaxSumArgs == 2

\* the durations within MaxOff ticks of a multiple of the unit key
Near(key) ==
    {DAdd(DTimes(Factor(key), c), Ticks(e)) :
        c \in -MaxCount..MaxCount, e \in -MaxOff..MaxOff}

\* millisecond scalars, whole and fractional
NumberInputs == {Number(d) : d \in UNION {Near(key) : key \in KeySet}}

\* the values of a field: whole counts, and for milliseconds ticks
FieldValues(key) ==
    IF key = "milliseconds"
    THEN {Ticks(x) : x \in -MaxField..MaxField}
    ELSE -MaxField..MaxField

\* how many of a unit reach the next larger one
CarryCount(key) ==
    CASE key = "years" -> 1
      [] key = "months" -> 12
      [] key = "weeks" -> 5
      [] key = "days" -> 7
      [] key = "hours" -> 24
      [] key = "minutes" -> 60
      [] key = "seconds" -> 60
      [] key = "milliseconds" -> 1000

\* partial objects: two keys with small counts of either sign, or one key
\* whose count is near a carry into the next unit
ObjectInputs ==
    {Object([k \in {q[1], q[2]} |-> IF k = q[1] THEN q[3] ELSE q[4]]) :
        q \in UNION {{<<p[1], p[2], x, y>> :
                          x \in FieldValues(p[1]), y \in FieldValues(p[2])} :
                      p \in {p \in KeySet \X KeySet : p[1] # p[2]}}}
    \cup
    {Object([k \in {q[1]} |-> Field(q[1], q[2] * CarryCount(q[1]) + q[3])]) :
        q \in KeySet \X (-MaxCount..MaxCount) \X (-1..1)}

StringInputs ==
    {String(<<"P", "T", "1", "H", "3", "0", "M">>),
     String(<<"P", "T", "9", "0", "M">>),
     String(<<"P", "1", "Y", "2", "M", "3", "W", "4", "D">>),
     String(<<"P", "1", "D", "T", "2", "5", "H", "6", "1", "S">>),
     String(<<"-", "P", "T", "1", "H">>),
     String(<<"-", "P", "1", "D", "T", "1", "S">>),
     String(<<"P">>),
     String(<<"P", "T">>),
     String(<<"P", "1", "D", "T">>),
     String(<<"1", "D">>),
     String(<<"P", "T", "1", "M", "1", "H">>),
     String(<<"P", "1", "H">>),
     String(<<"P", "1", "D", "x">>)}

TimeInputs == NumberInputs \cup ObjectInputs \cup StringInputs

\* runtime values of a shape the types exclude
OtherShapes == {Null, Undefined, Boolean(TRUE), Boolean(FALSE)}

SumInputs ==
    {Object([hours |-> 20]), Object([hours |-> 10]), Object([days |-> 1]),
     Object([days |-> 2, hours |-> 12]),
     Object([days |-> -1, milliseconds |-> Ms(1)]),
     Object([minutes |-> 45, seconds |-> 30]),
     Object([months |-> 7, weeks |-> 3]),
     Number(Ms(1500)), Number(Ticks(-3)),
     String(<<"P", "T", "1", "H", "3", "0", "M">>), String(<<"P", "T">>)}

\* argument lists: one value of any shape, or up to MaxSumArgs durations
ArgumentLists ==
    {<<v>> : v \in TimeInputs \cup OtherShapes}
    \cup UNION {[1..n -> SumInputs] : n \in 0..MaxSumArgs}

\* the arguments of new Time(...): nothing, the documented examples, and
\* the milliseconds within a tick of one of a unit, of either sign
TimeObjectInputs ==
    {<< >>, [days |-> 1, hours |-> 2], [days |-> -1, milliseconds |-> Ms(1)],
     [milliseconds |-> Ms(5010)], [hours |-> 1, minutes |-> 30],
     [hours |-> -25, seconds |-> 61], [days |-> 400, minutes |-> -1]}
    \cup
    {[milliseconds |-> DAdd(DTimes(Factor(q[1]), q[2]), Ticks(q[3]))] :
        q \in {"days", "hours", "minutes", "seconds", "milliseconds"}
                \X {-1, 1} \X (-1..1)}

\* the arguments of add and subtract, of multiply, of divide
TimeArguments == {[hours |-> 12], [seconds |-> -1, milliseconds |-> Ticks(1)]}
Multipliers == {-1, 2}
Divisors == {2, -4}

\* the Time instances of one run
MaxInstances == 2

\* the quotients d / unit for d near a multiple of the unit, and -0
FloorInputs ==
    {Div(q[2], Factor(q[1])) :
        q \in UNION {{<<key, d>> : d \in Near(key)} : key \in KeySet}}
    \cup {NegativeZero}

---------------------------------------------------------------------------
(* The state machine.  A client is followed through its calls on one       *)
(* input: a list of values for the functions on durations, a number for    *)
(* floorTowardsZero, or the argument of new Time(...) for the methods of   *)
(* the instances that follow from it.                                      *)

NoCall == [op |-> "none"]

\* the contents of a shared object after a call that returned r
After(name, shared, r) == IF r.ok /\ r.ref = name THEN r.value ELSE shared

Init ==
    /\ input \in {[kind |-> "values", args |-> a] : a \in ArgumentLists}
                 \cup {[kind |-> "number", value |-> v] : v \in FloorInputs}
                 \cup {[kind |-> "Time", time |-> t] : t \in TimeObjectInputs}
    /\ ZERO = AllZero
    /\ DEFAULT_TIME = AllZero
    /\ heap = << >>
    /\ last = NoCall

Call(op, arg, r) ==
    /\ last' = [op |-> op, arg |-> arg, result |-> r]
    /\ ZERO' = After("ZERO", ZERO, r)
    /\ DEFAULT_TIME' = After("DEFAULT_TIME", DEFAULT_TIME, r)
    /\ UNCHANGED <<input, heap>>

CallFloorTowardsZero ==
    /\ input.kind = "number"
    /\ last' = [op |-> "floorTowardsZero", arg |-> input.value,
                result |-> floorTowardsZero(input.value)]
    /\ UNCHANGED <<input, ZERO, DEFAULT_TIME, heap>>

CallNormalizeTime ==
    /\ input.kind = "values"
    /\ \E i \in DOMAIN input.args :
        /\ input.args[i] \in TimeInputs
        /\ Call("normalizeTime", input.args[i], normalizeTime(input.args[i]))

CallToTimeObject ==
    /\ input.kind = "values"
    /\ \E i \in DOMAIN input.args :
        Call("toTimeObject", input.args[i], toTimeObject(input.args[i]))

CallSum ==
    /\ input.kind = "values"
    /\ Call("sum", input.args, sum(input.args))

\* a method that returns a new instance
Created(op, this, arg, r) ==
    /\ Len(heap) < MaxInstances
    /\ heap' = r.heap
    /\ last' = [op |-> op, this |-> this, arg |-> arg, result |-> r.ref]
    /\ UNCHANGED <<input, ZERO, DEFAULT_TIME>>

\* a method that returns a value
Read(op, this, h, value) ==
    /\ heap' = h
    /\ last' = [op |-> op, this |-> this, result |-> value]
    /\ UNCHANGED <<input, ZERO, DEFAULT_TIME>>

NewTime ==
    /\ input.kind = "Time"
    /\ heap = << >>
    /\ Created("new", 0, input.time, TimeConstructor(heap, input.time))

CallAdd ==
    \E this \in DOMAIN heap, time \in TimeArguments :
        Created("add", this, time, add(heap, this, time))

CallSubtract ==
    \E this \in DOMAIN heap, time \in TimeArguments :
        Created("subtract", this, time, subtract(heap, this, time))

CallMultiply ==
    \E this \in DOMAIN heap, multiplier \in Multipliers :
        Created("multiply", this, multiplier, multiply(heap, this, multiplier))

CallDivide ==
    \E this \in DOMAIN heap, divisor \in Divisors :
        /\ DDivides(IF divisor > 0 THEN divisor ELSE -divisor,
                    heap[this].milliseconds)
        /\ Created("divide", this, divisor, divide(heap, this, divisor))

CallToUnit ==
    \E this \in DOMAIN heap :
        \/ Read("toMilliseconds", this, heap, TimeToMilliseconds(heap, this))
        \/ Read("toSeconds", this, heap, TimeToSeconds(heap, this))
        \/ Read("toMinutes", this, heap, TimeToMinutes(heap, this))
        \/ Read("toHours", this, heap, TimeToHours(heap, this))
        \/ Read("toDays", this, heap, TimeToDays(heap, this))

CallToComponents ==
    \E this \in DOMAIN heap :
        LET r == toComponents(heap, this)
        IN  Read("toComponents", this, r.heap, r.value)

CallToJSON ==
    \E this \in DOMAIN heap :
        LET r == toJSON(heap, this)
        IN  Read("toJSON", this, r.heap, r.value)

Next ==
    \/ CallFloorTowardsZero
    \/ CallNormalizeTime
    \/ CallToTimeObject
    \/ CallSum
    \/ NewTime
    \/ CallAdd
    \/ CallSubtract
    \/ CallMultiply
    \/ CallDivide
    \/ CallToUnit
    \/ CallToComponents
    \/ CallToJSON

Spec == Init /\ [][Next]_vars

---------------------------------------------------------------------------
(* What the claims speak of.                                               *)

Normalized == last.op = "normalizeTime" /\ last.result.ok
Components == last.op = "toComponents"

\* the whole number a field holds
FieldCount(key, x) == IF key = "milliseconds" THEN DToTicks(x) \div Den ELSE x

\* |x| for an integer
Abs(x) == IF x < 0 THEN -x ELSE x

\* x is rem / unit with its fraction discarded: |x| * unit <= |rem| <
\* (|x| + 1) * unit, and x has the sign of rem unless it is 0
IsTruncation(x, rem, unit) ==
    /\ DLeq(DTimes(unit, Abs(x)), DAbs(rem))
    /\ DLess(DAbs(rem), DTimes(unit, Abs(x) + 1))
    /\ x # 0 => (x < 0 <=> DIsNeg(rem))

\* the milliseconds of the fields of o before the i-th unit
RECURSIVE Extracted(_, _)
Extracted(o, i) ==
    IF i = 1
    THEN DZero
    ELSE DAdd(Extracted(o, i - 1), FieldMs(UNIT_KEYS[i - 1], o[UNIT_KEYS[i - 1]]))

\* C1: for every input whose value m is a whole number of milliseconds, the
\* components normalizeTime returns, each times its unit's milliseconds
\* (1 year = 365.25 days, 1 month = year / 12), add up to exactly m; so do the
\* components of Time.toComponents.
C1_RoundTrip ==
    /\ (Normalized /\ DIsWholeMs(toMilliseconds(last.arg)))
          => SumOfFields(last.result.value, 1) = toMilliseconds(last.arg)
    /\ (Components /\ DIsWholeMs(heap[last.this].milliseconds))
          => convertToMilliseconds(last.result) = heap[last.this].milliseconds

\* a negative whole number of milliseconds that reaches into every unit from
\* years to milliseconds has been normalized
C1_Witness ==
    /\ Normalized
    /\ last.arg.kind = "number"
    /\ DIsWholeMs(last.arg.num)
    /\ last.result.value.years < 0
    /\ last.result.value.milliseconds = Ms(-1)

\* C2: the output of normalizeTime and of Time.toComponents never has mixed
\* signs: if the input's total is negative every field is <= 0, otherwise
\* every field is >= 0, whatever the signs of the input's own fields.
C2_NoMixedSigns ==
    /\ Normalized =>
          \A key \in KeySet :
              IF DIsNeg(toMilliseconds(last.arg))
              THEN ~FieldIsPos(key, last.result.value[key])
              ELSE ~FieldIsNeg(key, last.result.value[key])
    /\ Components =>
          \A key \in DOMAIN last.result :
              IF DIsNeg(heap[last.this].milliseconds)
              THEN ~FieldIsPos(key, last.result[key])
              ELSE ~FieldIsNeg(key, last.result[key])

\* { days: -1, milliseconds: 1 } has been normalized to 23 h 59 min 59 s 999 ms
\* below zero
C2_Witness ==
    /\ Normalized
    /\ last.arg = Object([days |-> -1, milliseconds |-> Ms(1)])
    /\ last.result.value.hours = -23
    /\ last.result.value.milliseconds = Ms(-999)

\* the fields of the inputs of sum, added field by field
RECURSIVE FieldTotal(_, _, _)
FieldTotal(durations, key, i) ==
    IF i > Len(durations)
    THEN Field(key, 0)
    ELSE FieldAdd(key, toTimeObject(durations[i]).value[key],
                  FieldTotal(durations, key, i + 1))

\* the milliseconds of the inputs of sum, added
RECURSIVE MsTotal(_, _)
MsTotal(durations, i) ==
    IF i > Len(durations)
    THEN DZero
    ELSE DAdd(toMilliseconds(durations[i]), MsTotal(durations, i + 1))

Summed == last.op = "sum" /\ last.result.ok

C4_TypeErrorOnOtherShapes ==
    (last.op = "toTimeObject"
        /\ last.arg.kind \notin {"string", "number", "object"})
    => (~last.result.ok /\ last.result.error = "TypeError")

\* C5: a Time instance is never mutated: every step leaves every instance
\* with the milliseconds it had, and add, subtract, multiply and divide
\* return a new instance that holds the computed value.
C5_TimeImmutable ==
    [][/\ \A i \in DOMAIN heap : i \in DOMAIN heap' /\ heap'[i] = heap[i]
       /\ last'.op \in {"add", "subtract", "multiply", "divide"} =>
            /\ last'.result = Len(heap) + 1
            /\ Len(heap') = Len(heap) + 1
            /\ last'.op = "add" =>
                 heap'[last'.result].milliseconds
                    = DAdd(heap[last'.this].milliseconds,
                           SumOfFields(Spread(AllZero, last'.arg), 1))
            /\ last'.op = "subtract" =>
                 heap'[last'.result].milliseconds
                    = DSub(heap[last'.this].milliseconds,
                           SumOfFields(Spread(AllZero, last'.arg), 1))
            /\ last'.op = "multiply" =>
                 heap'[last'.result].milliseconds
                    = DTimes(heap[last'.this].milliseconds, last'.arg)
            /\ last'.op = "divide" =>
                 DTimes(heap'[last'.result].milliseconds, last'.arg)
                    = heap[last'.this].milliseconds
      ]_vars

\* the first instance has been read with toComponents after a second one was
\* derived from it
C5_Witness ==
    /\ Len(heap) = 2
    /\ last.op = "toComponents"
    /\ last.this = 1
    /\ heap[1] # heap[2]

\* C6: after normalization every field is an integer, also for an input with
\* a fractional millisecond value: the milliseconds are the remainder
\* truncated towards zero (normalizeTime and Time.toComponents).
C6_FieldsAreIntegers ==
    /\ Normalized =>
          \A key \in KeySet : FieldIsWhole(key, last.result.value[key])
    /\ Components =>
          \A key \in DOMAIN last.result : FieldIsWhole(key, last.result[key])

C8_GreedyFromTotal ==
    Normalized =>
        /\ \A i \in DOMAIN UNIT_KEYS :
              /\ FieldIsWhole(UNIT_KEYS[i], last.result.value[UNIT_KEYS[i]])
              /\ IsTruncation(
                     FieldCount(UNIT_KEYS[i], last.result.value[UNIT_KEYS[i]]),
                     DSub(toMilliseconds(last.arg), Extracted(last.result.value, i)),
                     Factor(UNIT_KEYS[i]))
        /\ last.result.value
              = normalizeTime(Number(toMilliseconds(last.arg))).value

\* { hours: 25 } has been normalized to 1 day 1 hour
C8_Witness ==
    /\ Normalized
    /\ last.arg = Object([hours |-> 25])
    /\ last.result.value.days = 1
    /\ last.result.value.hours = 1

\* C9: the shared all-zero objects ZERO and DEFAULT_TIME are never modified
\* by sum, normalizeTime or toTimeObject, no returned object is one of them,
\* and a call repeated with the same arguments returns the same result.
C9_SharedDefaultsFrozen ==
    /\ [](/\ ZERO = AllZero
          /\ DEFAULT_TIME = AllZero
          /\ (last.op \in {"sum", "normalizeTime", "toTimeObject"} /\ last.result.ok)
                => last.result.ref = "new")
    /\ [][(last.op \in {"sum", "normalizeTime", "toTimeObject"}
            /\ last'.op = last.op /\ last'.arg = last.arg)
          => last'.result = last.result]_vars

\* two durations have been summed to a non-zero result
C9_Witness ==
    /\ Summed
    /\ Len(last.arg) = 2
    /\ last.result.value # AllZero
    /\ ZERO = AllZero

\* C10: for an input of a whole number of milliseconds every field below
\* years is smaller than one of the next larger unit: |months| < 12,
\* |weeks| <= 4, |days| < 7, |hours| < 24, |minutes| < 60, |seconds| < 60,
\* |milliseconds| < 1000; Time.toComponents likewise from hours down.
C10_FieldBounds ==
    /\ (Normalized /\ DIsWholeMs(toMilliseconds(last.arg))) =>
          LET o == last.result.value
          IN  /\ Abs(o.months) < 12
              /\ Abs(o.weeks) <= 4
              /\ Abs(o.days) < 7
              /\ Abs(o.hours) < 24
              /\ Abs(o.minutes) < 60
              /\ Abs(o.seconds) < 60
              /\ DLess(DAbs(o.milliseconds), Ms(1000))
    /\ (Components /\ DIsWholeMs(heap[last.this].milliseconds)) =>
          LET o == last.result
          IN  /\ Abs(o.hours) < 24
              /\ Abs(o.minutes) < 60
              /\ Abs(o.seconds) < 60
              /\ DLess(DAbs(o.milliseconds), Ms(1000))

\* one millisecond less than a year has been normalized to 11 months, 4 weeks,
\* 2 days, 10:29:59.999
C10_Witness ==
    /\ Normalized
    /\ last.arg = Number(DSub(MILLISECONDS_IN_A_YEAR, Ms(1)))
    /\ last.result.value.months = 11
    /\ last.result.value.weeks = 4
    /\ last.result.value.days = 2
    /\ last.result.value.hours = 10
    /\ last.result.value.milliseconds = Ms(999)

====
